---- MODULE Spec2Model ----
(***************************************************************************)
(* Model of the include-resolution preprocessor of bistrulli/EMSE          *)
(* (src/preprocessor_working.py): the per-unit resolution loop of          *)
(* preprocess_file, the selector find_file_from_map, the include rewriter  *)
(* update_includes and the batch driver process_files (Spec); of main with *)
(* the failures of its environment (MainSpec); of extract_missing_info and *)
(* replace_temp_paths_in_output on their own (ExtractSpec, RestoreSpec);   *)
(* and of the earlier driver preprocess_project of src/preprocessor.py     *)
(* (ProjectSpec).                                                          *)
(*                                                                         *)
(* A path is a pair <<dir, name>>.  The project has two directories, "a"   *)
(* and its sub-directory "b" (so the reference "b/x.h" written in a file   *)
(* of "a" names <<"b", "x.h">>), and in one scan a third directory "c";    *)
(* "out" is a directory next to the project, outside its root; "ws" is the *)
(* temporary directory, which is flat.  A file is a sequence of lines;     *)
(* only #include directives and an #error directive matter to the          *)
(* external preprocessor.                                                  *)
(***************************************************************************)
EXTENDS Integers, Sequences, FiniteSets, TLC

\* ------------------------------------------------------------------ bounds
\* The iteration budget of the loop.  The program's value is 5000; the model
\* scales it down so that runs reaching the budget are explored.
max_iterations == 3
\* Greatest number of lines of a translation unit.
MaxUnitLines == 2
\* The period of the periodic cleanup of the temporary directory.  The
\* program's value is 200; the model scales it down to the size of a batch.
CleanupPeriod == 2

\* ------------------------------------------------------------- vocabulary
WS == "ws"

U  == <<"a", "u.c">>
V  == <<"b", "v.c">>
XA == <<"a", "x.h">>
XB == <<"b", "x.h">>
Y  == <<"b", "y.h">>
Z  == <<"b", "z.h">>
XC == <<"c", "x.h">>
UB == <<"b", "u.c">>
\* Headers that exist next to the project, outside its root: a unit of
\* directory "a" refers to them as "../out/o.h" and "../out/p.h".
O1 == <<"out", "o.h">>
O2 == <<"out", "p.h">>
OutsideFiles == {O1, O2}

\* Headers the preprocessor finds in its built-in system directories, and the
\* directory that holds them.
SysHeaders == {"stdio.h", "cfg.h"}
SysDir == "sys"

NoPath == <<"", "">>

Range(s) == {s[k] : k \in 1..Len(s)}

\* An #include line: d is the delimiter ("q" quotes, "a" angle brackets), p the
\* directory part of the reference ("" when it is a bare basename), n the
\* basename, sp whether white space separates '#' from 'include'.
Inc(d, p, n, sp) == [k |-> "inc", d |-> d, p |-> p, n |-> n, sp |-> sp]
Q(p, n) == Inc("q", p, n, FALSE)
A(p, n) == Inc("a", p, n, FALSE)
ErrLine == [k |-> "err", d |-> "q", p |-> "", n |-> "", sp |-> FALSE]

\* st_size of a file: one unit per line, one more for a directory part.
RECURSIVE SizeOf(_)
SizeOf(lines) ==
    IF lines = <<>> THEN 0
    ELSE 1 + (IF Head(lines).p = "" THEN 0 ELSE 1) + SizeOf(Tail(lines))

\* The directory named by prefix p written in a file of directory dir.
Join(dir, p) ==
    IF p = "" THEN dir
    ELSE IF dir = "a" /\ p \in {"b", "out"} THEN p
    ELSE "nowhere"

\* ------------------------------------------------------- bounded inputs
ULines ==
    { Q("", "x.h"), Q("b", "x.h"), Q("b", "y.h"), Q("", "n.h"),
      A("", "n.h"), Inc("q", "b", "x.h", TRUE), ErrLine }

SeqsUpTo(S, n) == UNION {[1..m -> S] : m \in 0..n}

\* A unit processed alone has up to MaxUnitLines lines; the units of a batch
\* of two are shorter.
UnitContents      == SeqsUpTo(ULines, MaxUnitLines)
ShortUnitContents == SeqsUpTo(ULines, 1)
\* The units of main's runs may also include the system header cfg.h and
\* the source file of their own basename in the other directory.
MainUnitContents  == SeqsUpTo(ULines \cup {A("", "cfg.h"), Q("b", "u.c")}, 1)
VContents    == { <<Q("b", "x.h")>>, <<Q("b", "y.h"), Q("", "x.h")>> }
XAContents   == { <<>>, <<Q("b", "y.h")>> }
XBContents   == { <<Q("", "y.h")>>, <<Q("b", "z.h"), A("", "stdio.h")>> }
YContents    == { <<>>, <<Q("b", "z.h")>>, <<Q("b", "x.h")>> }

\* Outputs of the project scan (find): which files exist, in which order.
Scans ==
    { <<U, XA, XB, Y, Z>>, <<U, XB, XA, Y, Z>>, <<XB, Y, Z, U>>,
      <<V, U, XB, XA, Z, Y>>, <<U, XA, XB, Y, Z, V>>, <<U, XC, XB, Y, Z>> }

\* The scans of main's runs: also a project with two sources named u.c.
MainScans == Scans \cup { <<UB, U, Y>> }

VARIABLES
    proj,                  \* the project tree: path -> [lines, mtime]
    all_files,             \* the scan's output
    file_map,              \* FileIndex: basename -> sequence of paths
    files_to_process,      \* the batch
    clean_temp,            \* --clean-temp
    idx,                   \* index of the unit in flight (1-based)
    successful, failed,    \* counters of process_files
    temp,                  \* files of temp_dir: name -> [lines, mtime]
    pc,                    \* position inside preprocess_file / process_files
    c_file,                \* the unit in flight
    temp_to_original_map,  \* PathMap: workspace path -> original path
    dependency_count,
    err_msg,               \* stderr of the last probe
    missing_info,          \* result of extract_missing_info
    found_source_file,
    ret,                   \* return value of preprocess_file
    outcome,               \* the message preprocess_file logged last
    calls,                 \* external calls made for the unit in flight
    err_files,             \* sidecars: unit path -> text
    i_files,               \* artifacts: unit path -> location markers
    attempted_missing_files,  \* preprocess_project: basenames tried for the unit
    is_processable,           \* preprocess_project: the unit can still succeed
    error_log,                \* preprocess_project: what the sidecar will say
    loop_iterations,          \* preprocess_project: while iterations begun for the unit
    single_file,              \* main: --single-file (NoPath when absent)
    find_failed,              \* main: the scan's find command failed
    expanded_text,            \* the text handed to replace_temp_paths_in_output
    restored_text,            \* the text it returned
    temp_dir_exists           \* main: temp_dir has been created and not removed

vars == <<proj, all_files, file_map, files_to_process, clean_temp, idx,
          successful, failed, temp, pc, c_file, temp_to_original_map,
          dependency_count, err_msg, missing_info, found_source_file, ret,
          outcome, calls, err_files, i_files, attempted_missing_files,
          is_processable, error_log, loop_iterations, single_file, find_failed,
          expanded_text, restored_text, temp_dir_exists>>

\* The state of src/preprocessor.py's preprocess_project, which the steps of
\* src/preprocessor_working.py leave alone.
project_loop == <<attempted_missing_files, is_processable, error_log,
                  loop_iterations>>


\* ------------------------------------------- the external preprocessor
NoLine == [k |-> "txt", d |-> "q", p |-> "", n |-> "", sp |-> FALSE]
NoDiag == [kind |-> "none", line |-> NoLine, includer |-> NoPath, echo |-> <<>>]

InSeq(x, s) == \E k \in 1..Len(s) : s[k] = x

\* cpp reading the lines of the workspace file `includer`: every header is
\* read once (include guards), a reference is looked up in the workspace (the
\* includer's directory and the only -I directory) and then in the system
\* directories, and the first one found nowhere is a fatal error naming the
\* reference (line), the including file and, echoed below it, the offending
\* source line (echo).  A system header is read like any other file, from its
\* own directory.
\* The text of a system header: cfg.h includes "y.h", the others nothing.
SysLines(n) == IF n = "cfg.h" THEN <<Q("", "y.h")>> ELSE <<>>

RECURSIVE CppLines(_, _, _, _)
CppLines(w, includer, lines, trace) ==
    IF lines = <<>> THEN [ok |-> TRUE, trace |-> trace, diag |-> NoDiag]
    ELSE LET l == Head(lines) IN
      CASE l.k = "err" ->
             [ok |-> FALSE, trace |-> trace,
              diag |-> [kind |-> "other", line |-> l, includer |-> includer,
                        echo |-> <<l>>]]
        [] l.k = "txt" -> CppLines(w, includer, Tail(lines), trace)
        [] OTHER ->
             IF l.p = "" /\ l.n \in DOMAIN w
             THEN IF InSeq(l.n, trace)
                  THEN CppLines(w, includer, Tail(lines), trace)
                  ELSE LET r == CppLines(w, <<WS, l.n>>, w[l.n].lines,
                                         Append(trace, l.n))
                       IN  IF r.ok THEN CppLines(w, includer, Tail(lines), r.trace)
                           ELSE r
             ELSE IF l.p = "" /\ l.n \in SysHeaders
             THEN LET r == CppLines(w, <<SysDir, l.n>>, SysLines(l.n), trace)
                  IN  IF r.ok THEN CppLines(w, includer, Tail(lines), r.trace)
                      ELSE r
             ELSE [ok |-> FALSE, trace |-> trace,
                   diag |-> [kind |-> "missing", line |-> l,
                             includer |-> includer, echo |-> <<l>>]]

Cpp(w, name) == CppLines(w, <<WS, name>>, w[name].lines, <<name>>)

\* (success, err_msg) of cpp -M on the staged unit.
run_cpp_m(w, name) ==
    LET r == Cpp(w, name) IN [success |-> r.ok, err_msg |-> r.diag]

\* ------------------------------------------------- extract_missing_info
NoInfo == [found |-> FALSE, missing_file |-> NoPath, is_system |-> FALSE,
           includer |-> NoPath]

\* Line 138: the first source line of the message that the pattern
\* #include\s+([<"]) matches (0 when none does); the pattern does not match
\* when white space follows '#'.
RECURSIVE include_line_search(_, _)
include_line_search(echo, k) ==
    IF k > Len(echo) THEN 0
    ELSE IF echo[k].k = "inc" /\ ~echo[k].sp THEN k
    ELSE include_line_search(echo, k + 1)

\* The 'fatal error: X: No such file or directory' line gives the missing
\* reference; the first '#include <...>' or '#include "..."' text of the
\* message decides is_system, whatever file it names; the 'file:line:col:'
\* prefix gives the includer.
extract_missing_info(msg) ==
    IF msg.kind # "missing" THEN NoInfo
    ELSE LET include_match == include_line_search(msg.echo, 1) IN
         [found |-> TRUE,
          missing_file |-> <<msg.line.p, msg.line.n>>,
          is_system |-> (include_match # 0 /\ msg.echo[include_match].d = "a"),
          includer |-> msg.includer]

\* --------------------------------------- find_source_files_and_build_map
CNames == {"u.c", "v.c"}

\* A map that keeps one path for each basename, the one scanned last.
RECURSIVE BuildMap_LastOnly(_, _)
BuildMap_LastOnly(files, m) ==
    IF files = <<>> THEN m
    ELSE LET f == Head(files)
             m1 == IF f[2] \in DOMAIN m THEN m ELSE (f[2] :> <<>>) @@ m
         IN  BuildMap_LastOnly(Tail(files), [m1 EXCEPT ![f[2]] = <<f>>])

RECURSIVE BuildMap(_, _)
BuildMap(files, m) ==
    IF files = <<>> THEN m
    ELSE LET f == Head(files)
             base_name == f[2]
             m1 == IF base_name \in DOMAIN m THEN m ELSE (base_name :> <<>>) @@ m
         IN  BuildMap(Tail(files), [m1 EXCEPT ![base_name] = Append(@, f)])

c_files_list(files) == SelectSeq(files, LAMBDA f : f[2] \in CNames)

\* ----------------------------------------------------- find_file_from_map
RECURSIVE FirstEqual(_, _)
FirstEqual(paths, target) ==
    IF paths = <<>> THEN NoPath
    ELSE IF Head(paths) = target THEN Head(paths)
    ELSE FirstEqual(Tail(paths), target)

\* filename_to_find is <<directory part, basename>>; exists is the set of
\* paths present on disk.
find_file_from_map(filename_to_find, from_file_path, fmap, exists) ==
    LET source_dir == from_file_path[1]
        base_filename == filename_to_find[2]
        relative_path_attempt ==
            <<Join(source_dir, filename_to_find[1]), base_filename>>
    IN  IF filename_to_find[1] # "" /\ relative_path_attempt \in exists
        THEN relative_path_attempt
        ELSE IF base_filename \notin DOMAIN fmap THEN NoPath
        ELSE LET possible_paths == fmap[base_filename] IN
             IF Len(possible_paths) = 1 THEN possible_paths[1]
             ELSE LET same == FirstEqual(possible_paths, <<source_dir, base_filename>>)
                  IN  IF same # NoPath THEN same ELSE possible_paths[1]

\* -------------------------------------------------------- update_includes
\* Only lines matching ^\s*#include\s+"..." are looked at; the first one whose
\* basename is the target and which is not yet flat is rewritten, the rest of
\* the file is kept.
RECURSIVE update_includes(_, _)
update_includes(lines, missing_file_base_name) ==
    IF lines = <<>> THEN [updated |-> FALSE, lines |-> <<>>]
    ELSE LET l == Head(lines) IN
         IF l.k = "inc" /\ ~l.sp /\ l.d = "q" /\ l.n = missing_file_base_name
            /\ l.p # ""
         THEN [updated |-> TRUE, lines |-> <<[l EXCEPT !.p = ""]>> \o Tail(lines)]
         ELSE LET r == update_includes(Tail(lines), missing_file_base_name)
              IN  [updated |-> r.updated, lines |-> <<l>> \o r.lines]

\* --------------------------------------------- replace_temp_paths_in_output
\* The expanded text is the sequence of its location markers' paths.
\* A line of the text, as '\n' delimits them: a location marker
\* (# 1 "path") or other text.  t holds the pieces of the line that form
\* feeds separate: <<"p", "q">> is the one line p\fq.
MarkerLine(path) == [k |-> "marker", path |-> path, t |-> <<"#">>]
TextLine(t) == [k |-> "text", path |-> NoPath, t |-> t]

\* Line 376, content.splitlines(): str.splitlines cuts at '\n' and also at
\* form feeds and the other line boundaries of Python.
RECURSIVE splitlines(_)
splitlines(content) ==
    IF content = <<>> THEN <<>>
    ELSE LET l == Head(content) IN
         [k \in 1..Len(l.t) |-> [l EXCEPT !.t = <<l.t[k]>>]]
            \o splitlines(Tail(content))

\* Lines 376-401: every marker line whose path is a key of the map gets the
\* mapped path, the lines are joined with '\n'.
replace_temp_paths_in_output(content, map) ==
    LET lines == splitlines(content) IN
    [k \in 1..Len(lines) |->
        IF lines[k].k = "marker" /\ lines[k].path \in DOMAIN map
        THEN [lines[k] EXCEPT !.path = map[lines[k].path]]
        ELSE lines[k]]

\* The same for a text that consists of location markers only, given and
\* returned as the sequence of their paths.
restore_markers(paths, map) ==
    LET out == replace_temp_paths_in_output(
                   [k \in 1..Len(paths) |-> MarkerLine(paths[k])], map)
    IN  [k \in 1..Len(out) |-> out[k].path]


\* ------------------------------------------------------------------ state
EmptyFn == [x \in {} |-> x]

\* The text of a project file, as chosen for this run.
ContentOf(path, cu, cv, cxa, cxb, cy) ==
    CASE path = U  -> cu
      [] path = V  -> cv
      [] path = XA -> cxa
      [] path = XB -> cxb
      [] path = Y  -> cy
      [] OTHER     -> <<>>

Call(op, arg, res) == [op |-> op, arg |-> arg, res |-> res]

\* The state main() hands to process_files: the scan's map and unit list, an
\* empty temporary directory.
Init ==
    \E scan \in Scans, cu \in UnitContents, cv \in VContents,
       cxa \in XAContents, cxb \in XBContents, cy \in YContents :
        /\ V \in Range(scan) => cu \in ShortUnitContents
        /\ V \notin Range(scan) => cv = <<Q("b", "x.h")>>
        /\ XA \notin Range(scan) => cxa = <<>>
        /\ all_files = scan
        /\ proj = [path \in Range(scan) |->
                     [lines |-> ContentOf(path, cu, cv, cxa, cxb, cy), mtime |-> 0]]
        /\ file_map = BuildMap(scan, EmptyFn)
        /\ files_to_process = c_files_list(scan)
        /\ clean_temp \in BOOLEAN
        /\ idx = 1
        /\ successful = 0
        /\ failed = 0
        /\ temp = EmptyFn
        /\ pc = "start"
        /\ c_file = NoPath
        /\ temp_to_original_map = EmptyFn
        /\ dependency_count = 0
        /\ err_msg = NoDiag
        /\ missing_info = NoInfo
        /\ found_source_file = NoPath
        /\ ret = FALSE
        /\ outcome = ""
        /\ calls = <<>>
        /\ err_files = EmptyFn
        /\ i_files = EmptyFn
        /\ attempted_missing_files = {}
        /\ is_processable = TRUE
        /\ error_log = <<>>
        /\ loop_iterations = 0
        /\ expanded_text = <<>>
        /\ restored_text = <<>>
        /\ temp_dir_exists = TRUE
        /\ single_file = NoPath
        /\ find_failed = FALSE

batch  == <<proj, all_files, file_map, files_to_process, clean_temp, idx,
            successful, failed, single_file, find_failed, expanded_text,
            restored_text, temp_dir_exists>>
locals == <<err_msg, missing_info, found_source_file>>
outputs == <<err_files, i_files>>

temp_file == <<WS, c_file[2]>>

\* err_path.write_text(...), guarded by 'if err_msg'.
WriteErr(msg, note) ==
    IF msg.kind = "none" THEN err_files
    ELSE (c_file :> [msg |-> msg, note |-> note]) @@ err_files

\* 'return False' after logging `why`.
Fail(why) ==
    /\ ret' = FALSE
    /\ outcome' = why
    /\ pc' = "done"

\* --------------------------------------------------------- preprocess_file
\* Lines 464-485: stage the unit, start PathMap and the counter.
StartUnit ==
    /\ pc = "start"
    /\ LET unit == files_to_process[idx] IN
       /\ c_file' = unit
       /\ calls' = <<>>
       /\ \E copy_ok \in BOOLEAN :
            IF copy_ok
            THEN /\ temp' = (unit[2] :> proj[unit]) @@ temp
                 /\ temp_to_original_map' = (<<WS, unit[2]>> :> unit)
                 /\ dependency_count' = 0
                 /\ outcome' = ""
                 /\ pc' = "probe"
                 /\ UNCHANGED ret
            ELSE /\ Fail("copy-failed")
                 /\ temp_to_original_map' = EmptyFn
                 /\ UNCHANGED <<temp, dependency_count>>
    /\ err_msg' = NoDiag
    /\ missing_info' = NoInfo
    /\ found_source_file' = NoPath
    /\ UNCHANGED <<project_loop, batch, outputs>>

\* A loop that lets one iteration too many through.
LoopGuard_Inclusive == dependency_count <= max_iterations

\* The guard of the while loop.
LoopGuard == dependency_count < max_iterations

\* Lines 487-500: one more iteration: count it and probe.
Probe ==
    /\ pc = "probe"
    /\ LoopGuard
    /\ dependency_count' = dependency_count + 1
    /\ LET r == run_cpp_m(temp, temp_file[2]) IN
       /\ err_msg' = r.err_msg
       /\ calls' = Append(calls,
             Call("run_cpp_m", temp_file[2],
                  IF r.success THEN "ok"
                  ELSE IF r.err_msg.kind = "missing" THEN r.err_msg.line.n
                  ELSE "error"))
       /\ IF r.success
          THEN pc' = "post" /\ outcome' = "resolved"
          ELSE pc' = "classify" /\ UNCHANGED outcome
    /\ UNCHANGED <<project_loop, batch, temp, c_file, temp_to_original_map, missing_info,
                   found_source_file, ret, outputs>>

\* Line 487 when the budget is used up: the loop ends without a success.
LoopExhausted ==
    /\ pc = "probe"
    /\ ~LoopGuard
    /\ pc' = "post"
    /\ UNCHANGED <<project_loop, batch, temp, c_file, temp_to_original_map, dependency_count,
                   locals, ret, outcome, calls, outputs>>

\* A loop that probes again after an unparsable diagnostic.
OnToolError_Retry ==
    /\ pc' = "probe"
    /\ UNCHANGED <<ret, outcome, err_files>>

\* Lines 503-506: the diagnostic names no missing file.
OnToolError ==
    /\ Fail("tool-error")
    /\ err_files' = WriteErr(err_msg, "")

\* A loop that looks a system header up in the project like any other.
OnSystemHeader_Search ==
    /\ pc' = "select"
    /\ UNCHANGED <<ret, outcome, err_files>>

\* Lines 514-517: the missing file is a system header.
OnSystemHeader ==
    /\ Fail("system-header")
    /\ err_files' = WriteErr(err_msg, "")

\* Lines 502-517: parse the diagnostic; an unparsable one and a system
\* header end the unit.
Classify ==
    /\ pc = "classify"
    /\ LET info == extract_missing_info(err_msg) IN
       /\ missing_info' = info
       /\ IF ~info.found THEN OnToolError
          ELSE IF info.is_system THEN OnSystemHeader
          ELSE pc' = "select" /\ UNCHANGED <<ret, outcome, err_files>>
    /\ UNCHANGED <<project_loop, batch, temp, c_file, temp_to_original_map, dependency_count,
                   err_msg, found_source_file, calls, i_files>>

\* Lines 523-536: the staged file the search starts from.
includer_in_temp_path ==
    IF missing_info.includer # NoPath
    THEN IF missing_info.includer[2] \in DOMAIN temp
         THEN <<WS, missing_info.includer[2]>>
         ELSE temp_file
    ELSE temp_file

\* A loop that probes again when the selector found nothing.
OnNotFound_Continue ==
    /\ pc' = "probe"
    /\ UNCHANGED <<ret, outcome, err_files>>

\* Lines 544-547: the selector found nothing.
OnNotFound ==
    /\ Fail("not-found")
    /\ err_files' = WriteErr(err_msg, "")

\* A selector whose index is a defaultdict: looking up an unknown basename
\* adds it with an empty list.
file_map_after_lookup_defaultdict(fmap, base_filename) ==
    IF base_filename \in DOMAIN fmap THEN fmap
    ELSE (base_filename :> <<>>) @@ fmap

\* Lines 855-859: the index after the selector's lookup.  file_map is a plain
\* dict read under a membership test, and the list it holds is only iterated.
file_map_after_lookup(fmap, base_filename) == fmap

\* A selector that returns any of the candidates of the basename.
find_file_from_map_any(filename_to_find, from_file_path, fmap, exists) ==
    IF filename_to_find[2] \in DOMAIN fmap
    THEN Range(fmap[filename_to_find[2]])
    ELSE {NoPath}

\* Lines 825-877 as the set of paths a call may return: the function reads
\* only its arguments and the file system, in list order.
find_file_from_map_outcomes(filename_to_find, from_file_path, fmap, exists) ==
    {find_file_from_map(filename_to_find, from_file_path, fmap, exists)}

\* The record of one call of the selector.
Selection(filename_to_find, from_file_path, found) ==
    [op |-> "find_file_from_map", arg |-> filename_to_find[2],
     res |-> IF found = NoPath THEN "none" ELSE "found",
     name |-> filename_to_find, from |-> from_file_path, path |-> found]

\* Lines 539-547: select the original of the missing header.
Select ==
    /\ pc = "select"
    /\ \E found \in find_file_from_map_outcomes(missing_info.missing_file,
                        includer_in_temp_path, file_map, DOMAIN proj) :
       /\ found_source_file' = found
       /\ calls' = Append(calls,
             Selection(missing_info.missing_file, includer_in_temp_path, found))
       /\ IF found = NoPath THEN OnNotFound
          ELSE pc' = "stage" /\ UNCHANGED <<ret, outcome, err_files>>
    /\ file_map' = file_map_after_lookup(file_map, missing_info.missing_file[2])
    /\ UNCHANGED <<project_loop, proj, all_files, files_to_process, clean_temp, idx,
                   successful, failed, single_file, find_failed, expanded_text,
                   restored_text, temp_dir_exists, temp, c_file,
                   temp_to_original_map,
                   dependency_count, err_msg, missing_info, i_files>>

missing_file_base_name == missing_info.missing_file[2]

\* Lines 551-561: the copy is skipped when the staged file is as recent as
\* the selected original and has its size.
copy_needed ==
    ~ ( /\ missing_file_base_name \in DOMAIN temp
        /\ temp[missing_file_base_name].mtime >= proj[found_source_file].mtime
        /\ SizeOf(temp[missing_file_base_name].lines)
             = SizeOf(proj[found_source_file].lines) )

\* A PathMap that is started afresh at every staging.
record_original_fresh(map, temp_path, original) == (temp_path :> original)

\* Line 569: temp_to_original_map[str(temp_dependency_path)] = original.
record_original(map, temp_path, original) ==
    [k \in DOMAIN map \cup {temp_path} |->
        IF k = temp_path THEN original ELSE map[k]]

\* Lines 563-577: stage the selected original under its basename and record
\* it in PathMap.
Stage ==
    /\ pc = "stage"
    /\ IF copy_needed
       THEN \E copy_ok \in BOOLEAN :
              IF copy_ok
              THEN /\ temp' = [n \in DOMAIN temp \cup {missing_file_base_name} |->
                                 IF n = missing_file_base_name
                                 THEN proj[found_source_file] ELSE temp[n]]
                   /\ temp_to_original_map' =
                        record_original(temp_to_original_map,
                                        <<WS, missing_file_base_name>>,
                                        found_source_file)
                   /\ calls' = Append(calls, Call("copy2", missing_file_base_name, "ok"))
                   /\ pc' = "rewrite"
                   /\ UNCHANGED <<ret, outcome, err_files>>
              ELSE /\ Fail("dep-copy-failed")
                   /\ err_files' = WriteErr(err_msg, "Error copying dependency")
                   /\ calls' = Append(calls, Call("copy2", missing_file_base_name, "failed"))
                   /\ UNCHANGED <<temp, temp_to_original_map>>
       ELSE /\ pc' = "rewrite"
            /\ UNCHANGED <<temp, temp_to_original_map, calls, ret, outcome, err_files>>
    /\ UNCHANGED <<project_loop, batch, c_file, dependency_count, locals, i_files>>

\* A loop that always rewrites the staged unit.
file_to_update_in_temp_unit == temp_file[2]

\* Lines 580-586: the staged file to rewrite, "" for None.
file_to_update_in_temp ==
    IF missing_info.includer # NoPath /\ missing_info.includer[2] \in DOMAIN temp
    THEN missing_info.includer[2]
    ELSE ""

\* Lines 579-602: rewrite the include in the staged includer and loop.
Rewrite ==
    /\ pc = "rewrite"
    /\ LET includer_basename == file_to_update_in_temp
           located == includer_basename # ""
       IN  IF ~located
           THEN /\ Fail("no-includer")
                /\ err_files' = WriteErr(err_msg, "Could not locate the includer")
                /\ UNCHANGED <<temp, calls>>
           ELSE LET r == update_includes(temp[includer_basename].lines,
                                         missing_file_base_name) IN
                /\ temp' = IF r.updated
                           THEN [temp EXCEPT ![includer_basename] =
                                    [lines |-> r.lines, mtime |-> 1]]
                           ELSE temp
                /\ calls' = Append(calls,
                      Call("update_includes", includer_basename,
                           IF r.updated THEN "updated" ELSE "unchanged"))
                /\ pc' = "probe"
                /\ UNCHANGED <<ret, outcome, err_files>>
    /\ UNCHANGED <<project_loop, batch, c_file, temp_to_original_map, dependency_count,
                   locals, i_files>>

\* The test after the loop.
BudgetReached == dependency_count >= max_iterations

\* Lines 604-608.
PostLoopFail ==
    /\ pc = "post"
    /\ BudgetReached
    /\ Fail("budget-exceeded")
    /\ err_files' = WriteErr(err_msg, "Maximum iterations reached.")
    /\ UNCHANGED <<project_loop, batch, temp, c_file, temp_to_original_map, dependency_count,
                   locals, calls, i_files>>

\* A failed expansion that leaves no sidecar.
WriteFinalErr_Never(final_err) == err_files

\* Line 638: 'if final_err: err_path.write_text(final_err)'.
WriteFinalErr(final_err) ==
    IF final_err = "" THEN err_files
    ELSE (c_file :> [msg |-> [kind |-> "other", line |-> NoLine,
                              includer |-> temp_file, echo |-> <<>>],
                     note |-> "cpp -E"]) @@ err_files

\* Lines 610-639: the final expansion and the restoration of the paths.
Expand ==
    /\ pc = "post"
    /\ ~BudgetReached
    /\ LET r == Cpp(temp, temp_file[2])
           final_out == [k \in 1..Len(r.trace) |-> <<WS, r.trace[k]>>]
       IN  \E diverges \in BOOLEAN, write_ok \in BOOLEAN, final_err \in {"", "stderr"} :
             LET final_success == r.ok /\ ~diverges IN
             /\ calls' = Append(calls,
                   Call("run_cpp_e", temp_file[2],
                        IF final_success THEN "ok"
                        ELSE IF final_err = "" THEN "silent" ELSE "error"))
             /\ IF final_success
                THEN /\ final_err = ""
                     /\ i_files' =
                          IF write_ok
                          THEN (c_file :> restore_markers(
                                              final_out, temp_to_original_map))
                               @@ i_files
                          ELSE i_files
                     /\ err_files' = [u \in DOMAIN err_files \ {c_file} |-> err_files[u]]
                     /\ ret' = TRUE
                     /\ outcome' = "success"
                ELSE /\ write_ok
                     /\ err_files' = WriteFinalErr(final_err)
                     /\ ret' = FALSE
                     /\ outcome' = "expand-failed"
                     /\ UNCHANGED i_files
    /\ pc' = "done"
    /\ UNCHANGED <<project_loop, batch, temp, c_file, temp_to_original_map, dependency_count,
                   locals>>

\* ----------------------------------------------------------- process_files
\* A driver that never cleans the temporary directory.
maybe_clean_temp_directory_never(files, clean, file_count) == files

\* Lines 681-702, with the running count of processed files.
maybe_clean_temp_directory(files, clean, file_count) ==
    IF clean THEN EmptyFn
    ELSE IF file_count > 0 /\ file_count % CleanupPeriod = 0 THEN EmptyFn
    ELSE files

\* A driver that counts the successes only.
count_unit_successes_only(success, n_successful, n_failed) ==
    IF success THEN <<n_successful + 1, n_failed>>
    ELSE <<n_successful, n_failed>>

\* Lines 767-771: (successful, failed) after one unit.
count_unit(success, n_successful, n_failed) ==
    IF success THEN <<n_successful + 1, n_failed>>
    ELSE <<n_successful, n_failed + 1>>

\* Lines 761-776: count the unit, clean, go to the next one.
Finish ==
    /\ pc = "done"
    /\ successful' = count_unit(ret, successful, failed)[1]
    /\ failed' = count_unit(ret, successful, failed)[2]
    /\ temp' = maybe_clean_temp_directory(temp, clean_temp, successful' + failed')
    /\ idx' = idx + 1
    /\ pc' = IF idx < Len(files_to_process) THEN "start" ELSE "end"
    /\ UNCHANGED <<proj, all_files, file_map, files_to_process, clean_temp,
                   c_file, temp_to_original_map, dependency_count, locals, ret,
                   outcome, calls, outputs, project_loop, single_file,
                   find_failed, expanded_text, restored_text, temp_dir_exists>>

Next ==
    \/ StartUnit
    \/ Probe
    \/ LoopExhausted
    \/ Classify
    \/ Select
    \/ Stage
    \/ Rewrite
    \/ PostLoopFail
    \/ Expand
    \/ Finish

Spec == Init /\ [][Next]_vars

\* -------------------------------------------------------------------- main
\* get_files_to_process: the requested file alone, or None for "the list of
\* the scan".
get_files_to_process(requested) ==
    IF requested # NoPath THEN <<requested>> ELSE <<>>

\* What an earlier run of the program left next to a/u.c.
EarlierRuns == {"nothing", "sidecar", "artifact"}
StaleSidecar == [msg |-> NoDiag, note |-> "earlier run"]
StaleArtifact == <<<<"earlier", "run">>>>

\* The state in which main() starts: a project on disk, possibly with the
\* output of an earlier run, the arguments read, nothing scanned yet.
InitMain ==
    \E walk \in MainScans, cu \in MainUnitContents, cv \in VContents,
       cxa \in XAContents, cxb \in XBContents, cy \in YContents :
        /\ V \notin Range(walk) => cv = <<Q("b", "x.h")>>
        /\ XA \notin Range(walk) => cxa = <<>>
        /\ proj = [path \in Range(walk) |->
                     [lines |-> ContentOf(path, cu, cv, cxa, cxb, cy), mtime |-> 0]]
        /\ all_files = walk
        /\ file_map = EmptyFn
        /\ files_to_process = <<>>
        /\ clean_temp \in BOOLEAN
        /\ single_file \in {NoPath, U}
        /\ find_failed = FALSE
        /\ idx = 1
        /\ successful = 0
        /\ failed = 0
        /\ temp = EmptyFn
        /\ pc = "main"
        /\ c_file = NoPath
        /\ temp_to_original_map = EmptyFn
        /\ dependency_count = 0
        /\ err_msg = NoDiag
        /\ missing_info = NoInfo
        /\ found_source_file = NoPath
        /\ ret = FALSE
        /\ outcome = ""
        /\ calls = <<>>
        /\ \E left \in EarlierRuns :
              /\ single_file = NoPath => left = "nothing"
              /\ err_files = IF left = "sidecar" THEN (U :> StaleSidecar)
                             ELSE EmptyFn
              /\ i_files = IF left = "artifact" THEN (U :> StaleArtifact)
                           ELSE EmptyFn
        /\ attempted_missing_files = {}
        /\ is_processable = TRUE
        /\ error_log = <<>>
        /\ loop_iterations = 0
        /\ expanded_text = <<>>
        /\ restored_text = <<>>
        /\ temp_dir_exists = FALSE

\* Lines 778-823 with the outcome of the find command: (c_files_list,
\* file_map), both empty when the command failed.
find_source_files_and_build_map(walk, find_ok) ==
    IF find_ok
    THEN [c_files_list |-> c_files_list(walk), file_map |-> BuildMap(walk, EmptyFn)]
    ELSE [c_files_list |-> <<>>, file_map |-> EmptyFn]

\* Lines 902-928: scan, choose the units, create temp_dir (line 914), call
\* process_files.  The scan's output is what find would print; all_files
\* holds it from the start.
Main ==
    /\ pc = "main"
    /\ \E find_ok \in BOOLEAN :
         LET scanned == find_source_files_and_build_map(all_files, find_ok)
             requested == get_files_to_process(single_file)
             units == IF single_file = NoPath THEN scanned.c_files_list
                      ELSE requested
         IN  /\ find_failed' = ~find_ok
             /\ file_map' = scanned.file_map
             /\ files_to_process' = units
             /\ temp_dir_exists' = TRUE
             /\ pc' = IF units = <<>> THEN "end" ELSE "start"
    /\ UNCHANGED <<proj, all_files, clean_temp, idx, successful, failed, temp,
                   c_file, temp_to_original_map, dependency_count, locals, ret,
                   outcome, calls, outputs, project_loop, single_file, expanded_text,
                   restored_text>>

\* Lines 308-309: subprocess.run is given no timeout, so a cpp -M that never
\* exits keeps preprocess_file waiting inside run_cpp_m.
ProbeBlocked ==
    /\ pc = "probe"
    /\ LoopGuard
    /\ dependency_count' = dependency_count + 1
    /\ calls' = Append(calls, Call("run_cpp_m", temp_file[2], "blocked"))
    /\ pc' = "blocked"
    /\ UNCHANGED <<project_loop, batch, temp, c_file, temp_to_original_map, locals,
                   ret, outcome, outputs>>

\* Lines 333-334: the same for cpp -E inside run_cpp_e.
ExpandBlocked ==
    /\ pc = "post"
    /\ ~BudgetReached
    /\ calls' = Append(calls, Call("run_cpp_e", temp_file[2], "blocked"))
    /\ pc' = "blocked"
    /\ UNCHANGED <<project_loop, batch, temp, c_file, temp_to_original_map,
                   dependency_count, locals, ret, outcome, outputs>>

\* Lines 505 and 516 when err_path.write_text raises (the unit's directory is
\* not writable): the exception leaves preprocess_file and is caught by
\* process_file_with_logging (lines 727-733), which returns False.
SidecarWriteRaises ==
    /\ pc = "classify"
    /\ err_msg.kind # "none"
    /\ LET info == extract_missing_info(err_msg) IN
       /\ ~info.found \/ info.is_system
       /\ missing_info' = info
    /\ Fail("raised")
    /\ UNCHANGED <<project_loop, batch, temp, c_file, temp_to_original_map,
                   dependency_count, err_msg, found_source_file, calls, outputs>>

\* Lines 308-309 and 333-334: a KeyboardInterrupt raised while preprocess_file
\* waits for cpp is no Exception, so the handler of lines 727-733 lets it
\* pass: it leaves preprocess_file, process_file_with_logging and
\* process_files.
Interrupt ==
    /\ pc \in {"probe", "post"}
    /\ calls' = Append(calls, Call(IF pc = "probe" THEN "run_cpp_m" ELSE "run_cpp_e",
                                   temp_file[2], "interrupted"))
    /\ pc' = "raising"
    /\ UNCHANGED <<project_loop, batch, temp, c_file, temp_to_original_map,
                   dependency_count, locals, ret, outcome, outputs>>

\* A main that removes temp_dir after the call of process_files, outside
\* any finally clause.
main_cleanup_after_call(exists, raised) == IF raised THEN exists ELSE FALSE

\* Lines 934-937: the finally clause: shutil.rmtree(temp_dir), whether
\* process_files returned or raised.
main_finally(exists, raised) == FALSE

\* Lines 918-937: process_files has returned or raised; the finally clause
\* runs and main returns, or lets the exception propagate.
MainFinally ==
    /\ pc \in {"end", "raising"}
    /\ temp_dir_exists' = main_finally(temp_dir_exists, pc = "raising")
    /\ temp' = IF temp_dir_exists' THEN temp ELSE EmptyFn
    /\ pc' = IF pc = "end" THEN "returned" ELSE "propagated"
    /\ UNCHANGED <<project_loop, proj, all_files, file_map, files_to_process,
                   clean_temp, idx, successful, failed, single_file, find_failed,
                   expanded_text, restored_text, c_file, temp_to_original_map,
                   dependency_count, locals, ret, outcome, calls, outputs>>

\* main with the failures of its environment: a find that fails, a cpp that
\* never returns, a sidecar that cannot be written, an interrupt.
NextMain ==
    \/ Main
    \/ Interrupt
    \/ MainFinally
    \/ ProbeBlocked
    \/ ExpandBlocked
    \/ SidecarWriteRaises
    \/ StartUnit
    \/ Probe
    \/ LoopExhausted
    \/ Classify
    \/ Select
    \/ Stage
    \/ Rewrite
    \/ PostLoopFail
    \/ Expand
    \/ Finish

MainSpec == InitMain /\ [][NextMain]_vars

\* --------------------------------------- extract_missing_info on its own
\* The directives whose target may be missing.
Directives ==
    {Inc(d, "", n, sp) : d \in {"q", "a"}, n \in {"x.h", "n.h"}, sp \in BOOLEAN}

\* Source lines echoed by warnings that precede the fatal error.
WarningEchoes == {<<>>, <<A("", "stdio.h")>>, <<Q("", "y.h")>>}

\* The stderr texts of a failed cpp -M: a fatal error for a directive, whose
\* source line is echoed or not, after the echoes of earlier warnings; or an
\* #error.
Diagnostics ==
    {[kind |-> "missing", line |-> l, includer |-> inc,
      echo |-> w \o (IF echoed THEN <<l>> ELSE <<>>)] :
        l \in Directives, inc \in {<<WS, "u.c">>, NoPath},
        w \in WarningEchoes, echoed \in BOOLEAN}
    \cup {[kind |-> "other", line |-> ErrLine, includer |-> <<WS, "u.c">>,
           echo |-> <<ErrLine>>]}

InitExtract ==
    /\ err_msg \in Diagnostics
    /\ pc = "extract"
    /\ proj = EmptyFn
    /\ all_files = <<>>
    /\ file_map = EmptyFn
    /\ files_to_process = <<>>
    /\ clean_temp = FALSE
    /\ single_file = NoPath
    /\ find_failed = FALSE
    /\ idx = 1
    /\ successful = 0
    /\ failed = 0
    /\ temp = EmptyFn
    /\ c_file = NoPath
    /\ temp_to_original_map = EmptyFn
    /\ dependency_count = 0
    /\ missing_info = NoInfo
    /\ found_source_file = NoPath
    /\ ret = FALSE
    /\ outcome = ""
    /\ calls = <<>>
    /\ err_files = EmptyFn
    /\ i_files = EmptyFn
    /\ attempted_missing_files = {}
    /\ is_processable = TRUE
    /\ error_log = <<>>
    /\ loop_iterations = 0
    /\ expanded_text = <<>>
    /\ restored_text = <<>>
    /\ temp_dir_exists = FALSE

\* Line 502: one call of extract_missing_info.
Extract ==
    /\ pc = "extract"
    /\ missing_info' = extract_missing_info(err_msg)
    /\ pc' = "extracted"
    /\ UNCHANGED <<project_loop, batch, temp, c_file, temp_to_original_map,
                   dependency_count, err_msg, found_source_file, ret, outcome,
                   calls, outputs>>

ExtractSpec == InitExtract /\ [][Extract]_vars

\* ------------------------------- replace_temp_paths_in_output on its own
\* Greatest number of lines of an expanded text.
MaxTextLines == 3

\* The lines of an expanded text: markers of staged files and of a system
\* header, a plain line, a line with a form feed inside a string literal.
TextLines ==
    { MarkerLine(<<WS, "u.c">>), MarkerLine(<<WS, "x.h">>),
      MarkerLine(<<SysDir, "stdio.h">>), TextLine(<<"p">>),
      TextLine(<<"p", "q">>) }

PathMaps ==
    { (<<WS, "u.c">> :> U), (<<WS, "u.c">> :> U) @@ (<<WS, "x.h">> :> XB) }

InitRestore ==
    /\ expanded_text \in SeqsUpTo(TextLines, MaxTextLines)
    /\ temp_to_original_map \in PathMaps
    /\ restored_text = <<>>
    /\ temp_dir_exists = FALSE
    /\ pc = "restore"
    /\ proj = EmptyFn
    /\ all_files = <<>>
    /\ file_map = EmptyFn
    /\ files_to_process = <<>>
    /\ clean_temp = FALSE
    /\ single_file = NoPath
    /\ find_failed = FALSE
    /\ idx = 1
    /\ successful = 0
    /\ failed = 0
    /\ temp = EmptyFn
    /\ c_file = NoPath
    /\ dependency_count = 0
    /\ err_msg = NoDiag
    /\ missing_info = NoInfo
    /\ found_source_file = NoPath
    /\ ret = FALSE
    /\ outcome = ""
    /\ calls = <<>>
    /\ err_files = EmptyFn
    /\ i_files = EmptyFn
    /\ attempted_missing_files = {}
    /\ is_processable = TRUE
    /\ error_log = <<>>
    /\ loop_iterations = 0

\* Line 621: one call of replace_temp_paths_in_output.
Restore ==
    /\ pc = "restore"
    /\ restored_text' = replace_temp_paths_in_output(expanded_text,
                                                     temp_to_original_map)
    /\ pc' = "restored"
    /\ UNCHANGED <<project_loop, proj, all_files, file_map, files_to_process,
                   clean_temp, idx, successful, failed, single_file, find_failed,
                   expanded_text, temp_dir_exists, temp, c_file,
                   temp_to_original_map, dependency_count, locals, ret, outcome,
                   calls, outputs>>

RestoreSpec == InitRestore /\ [][Restore]_vars


\* ======================================================================
\* src/preprocessor.py: preprocess_project, the earlier batch driver.  It
\* keeps one temporary directory and one temp_to_orig_map for the whole
\* batch, has no index (it walks the project for every missing basename)
\* and rewrites includes in the staged unit only.
\* ======================================================================

\* os.path.getsize of a project file.
getsize(f) == SizeOf(proj[f].lines)

\* list.sort by size, stable: f inserted behind the files that stay before
\* it (sign 1: ascending, sign -1: descending).
RECURSIVE InsertBySize(_, _, _)
InsertBySize(f, sorted, sign) ==
    IF sorted = <<>> THEN <<f>>
    ELSE IF sign * getsize(Head(sorted)) <= sign * getsize(f)
         THEN <<Head(sorted)>> \o InsertBySize(f, Tail(sorted), sign)
         ELSE <<f>> \o sorted

RECURSIVE SortBySize(_, _)
SortBySize(files, sign) ==
    IF files = <<>> THEN <<>>
    ELSE InsertBySize(files[Len(files)],
                      SortBySize(SubSeq(files, 1, Len(files) - 1), sign), sign)

\* Lines 44-54: the walk's files, smallest first.
get_source_files(walk) == SortBySize(walk, 1)

\* Lines 115-132: the files of that name in walk order, largest first.
find_files_by_name(walk, filename) ==
    SortBySize(SelectSeq(walk, LAMBDA f : f[2] = filename), -1)

\* Lines 401-416: the first <...> of the message makes the missing file a
\* system include, else the first "..." a local one; the echoed source line
\* carries the delimiters whatever the spacing of the directive.
extract_missing_file(msg) ==
    IF msg.kind # "missing" THEN NoInfo
    ELSE [found |-> TRUE,
          missing_file |-> <<msg.line.p, msg.line.n>>,
          is_system |-> (msg.line.d = "a"),
          includer |-> NoPath]

\* Lines 247-306: re.sub turns every '#include <...basename>' and
\* '#include "...basename"' of the file into '#include "basename"'.
update_includes_re_sub(lines, basename) ==
    [k \in 1..Len(lines) |->
        IF lines[k].k = "inc" /\ ~lines[k].sp /\ lines[k].n = basename
        THEN Q("", basename) ELSE lines[k]]

\* Lines 384-398: cpp -M on the staged unit.
run_preprocessor(w, name) == run_cpp_m(w, name)

\* Lines 185-241: every temporary path of the text is replaced by its
\* original.
postprocess(content, map) ==
    [k \in 1..Len(content) |->
        IF content[k] \in DOMAIN map THEN map[content[k]] ELSE content[k]]

\* The project root: directory "a".
project_path == "a"

\* Lines 574-588: the reference read from the unit's directory, then from
\* the project root; nothing asks whether the path lies under the root.
exact_paths(unit, missing_file) ==
    LET rel_to_c_file == <<Join(unit[1], missing_file[1]), missing_file[2]>>
        rel_to_project == <<Join(project_path, missing_file[1]), missing_file[2]>>
        first == IF rel_to_c_file \in DOMAIN proj THEN <<rel_to_c_file>> ELSE <<>>
    IN  IF rel_to_project \in DOMAIN proj /\ ~InSeq(rel_to_project, first)
        THEN Append(first, rel_to_project) ELSE first

\* shutil.copy2(match, dest), temp_to_orig_map[dest] = match and
\* update_includes(c_file_tmp, missing_file): the directory and the map
\* after staging `match` for the unit named `name`.
stage_match(w, map, name, match) ==
    LET basename == match[2]
        w1 == [f \in DOMAIN w \cup {basename} |->
                 IF f = basename THEN proj[match] ELSE w[f]]
    IN  [temp |-> [w1 EXCEPT ![name] =
                     [lines |-> update_includes_re_sub(w1[name].lines, basename),
                      mtime |-> 1]],
         map  |-> [k \in DOMAIN map \cup {<<WS, basename>>} |->
                     IF k = <<WS, basename>> THEN match ELSE map[k]]]

\* Lines 692-786: the for loop over the matches, largest first: each is
\* staged and test-probed until one makes the missing file go away (or a
\* system include stops the unit).  `log` is the calls made.
RECURSIVE try_matches(_, _, _, _, _, _)
try_matches(matches, w, map, name, missing_file, log) ==
    IF matches = <<>>
    THEN [temp |-> w, map |-> map, missing_file_resolved |-> FALSE,
          is_processable |-> TRUE, log |-> log]
    ELSE LET st == stage_match(w, map, name, Head(matches))
             test == run_preprocessor(st.temp, name)
             new == extract_missing_file(test.err_msg)
             log1 == log \o <<Call("copy2", missing_file[2], "ok"),
                              Call("run_preprocessor", name,
                                   IF test.success THEN "ok" ELSE "error")>>
         IN  IF test.success \/ (new.found /\ new.missing_file # missing_file)
             THEN [temp |-> st.temp, map |-> st.map, missing_file_resolved |-> TRUE,
                   is_processable |-> TRUE, log |-> log1]
             ELSE IF new.found /\ new.is_system
             THEN [temp |-> st.temp, map |-> st.map, missing_file_resolved |-> FALSE,
                   is_processable |-> FALSE, log |-> log1]
             ELSE try_matches(Tail(matches), st.temp, st.map, name, missing_file, log1)

\* The walks of preprocess_project's runs: also a project of one source.
ProjectScans == Scans \cup { <<U>> }

\* The units of its runs may also refer to the headers outside the root, and
\* name one header twice: in quotes and, in a directive that update_includes
\* does not match, in angle brackets ("b/z.h" exists as written, "inc/z.h"
\* does not).
ProjectUnitContents ==
    UnitContents \cup
        { <<Q("out", "o.h")>>, <<Q("out", "o.h"), Q("out", "p.h")>>,
          <<Q("b", "z.h"), Inc("a", "b", "z.h", TRUE)>>,
          <<Q("inc", "z.h"), Inc("a", "inc", "z.h", TRUE)>> }

\* The state main hands to preprocess_project: the walk, the units smallest
\* first, an empty temporary directory and an empty temp_to_orig_map.  The
\* file system holds the walked files and the headers outside the root.
InitProject ==
    \E scan \in ProjectScans, cu \in ProjectUnitContents, cv \in VContents,
       cxa \in XAContents, cxb \in XBContents, cy \in YContents :
        /\ V \in Range(scan) => cu \in ShortUnitContents
        /\ V \notin Range(scan) => cv = <<Q("b", "x.h")>>
        /\ XA \notin Range(scan) => cxa = <<>>
        /\ XB \notin Range(scan) => cxb = <<Q("", "y.h")>>
        /\ Y \notin Range(scan) => cy = <<>>
        /\ all_files = scan
        /\ proj = [path \in Range(scan) \cup OutsideFiles |->
                     [lines |-> ContentOf(path, cu, cv, cxa, cxb, cy), mtime |-> 0]]
        /\ file_map = EmptyFn
        /\ files_to_process = c_files_list(get_source_files(scan))
        /\ clean_temp = FALSE
        /\ idx = 1
        /\ successful = 0
        /\ failed = 0
        /\ temp = EmptyFn
        /\ pc = "pp_start"
        /\ c_file = NoPath
        /\ temp_to_original_map = EmptyFn
        /\ dependency_count = 0
        /\ err_msg = NoDiag
        /\ missing_info = NoInfo
        /\ found_source_file = NoPath
        /\ ret = FALSE
        /\ outcome = ""
        /\ calls = <<>>
        /\ err_files = EmptyFn
        /\ i_files = EmptyFn
        /\ attempted_missing_files = {}
        /\ is_processable = TRUE
        /\ error_log = <<>>
        /\ loop_iterations = 0
        /\ expanded_text = <<>>
        /\ restored_text = <<>>
        /\ temp_dir_exists = FALSE
        /\ single_file = NoPath
        /\ find_failed = FALSE

\* What preprocess_project never touches.
working == <<proj, all_files, file_map, files_to_process, clean_temp,
             dependency_count, found_source_file, ret, outcome, single_file,
             find_failed, expanded_text, restored_text, temp_dir_exists>>

\* Lines 864-871: an exception leaves the for loop and the function: the
\* temporary directory is removed and the exception raised again.
RaiseOutOfBatch ==
    /\ pc' = "pp_aborted"
    /\ temp' = EmptyFn

\* Lines 492-532: stage the unit; a refused copy is a RuntimeError.
StartFile ==
    /\ pc = "pp_start"
    /\ LET unit == files_to_process[idx] IN
       /\ c_file' = unit
       /\ \E copy_ok \in BOOLEAN :
            IF copy_ok
            THEN /\ temp' = [f \in DOMAIN temp \cup {unit[2]} |->
                               IF f = unit[2] THEN proj[unit] ELSE temp[f]]
                 /\ temp_to_original_map' =
                      [k \in DOMAIN temp_to_original_map \cup {<<WS, unit[2]>>} |->
                         IF k = <<WS, unit[2]>> THEN unit ELSE temp_to_original_map[k]]
                 /\ pc' = "pp_probe"
            ELSE /\ RaiseOutOfBatch
                 /\ UNCHANGED temp_to_original_map
    /\ calls' = <<>>
    /\ attempted_missing_files' = {}
    /\ is_processable' = TRUE
    /\ error_log' = <<>>
    /\ loop_iterations' = 0
    /\ err_msg' = NoDiag
    /\ missing_info' = NoInfo
    /\ UNCHANGED <<working, idx, successful, failed, outputs>>

\* Lines 533-560 and 815-820: one probe of the while loop and the reading
\* of its diagnostic: no missing file, a basename already attempted and a
\* system include end the unit.
DependencyCheck ==
    /\ pc = "pp_probe"
    /\ LET r == run_preprocessor(temp, c_file[2])
           info == extract_missing_file(r.err_msg)
           basename == info.missing_file[2]
       IN
       /\ err_msg' = r.err_msg
       /\ loop_iterations' = loop_iterations + 1
       /\ calls' = Append(calls, Call("run_preprocessor", c_file[2],
                                      IF r.success THEN "ok" ELSE "error"))
       /\ IF r.success
          THEN /\ pc' = "pp_final"
               /\ UNCHANGED <<missing_info, attempted_missing_files,
                              is_processable, error_log>>
          ELSE /\ missing_info' = info
               /\ IF ~info.found
                  THEN /\ is_processable' = FALSE
                       /\ error_log' = <<"not related to missing files">>
                       /\ pc' = "pp_skip"
                       /\ UNCHANGED attempted_missing_files
                  ELSE IF basename \in attempted_missing_files
                  THEN /\ is_processable' = FALSE
                       /\ error_log' = <<"Circular dependency detected">>
                       /\ pc' = "pp_skip"
                       /\ UNCHANGED attempted_missing_files
                  ELSE /\ attempted_missing_files' =
                            attempted_missing_files \cup {basename}
                       /\ IF info.is_system
                          THEN /\ is_processable' = FALSE
                               /\ error_log' = <<"System include not found">>
                               /\ pc' = "pp_skip"
                          ELSE /\ error_log' =
                                    Append(error_log, "Error during dependency check")
                               /\ pc' = "pp_exact"
                               /\ UNCHANGED is_processable
    /\ UNCHANGED <<working, idx, successful, failed, temp, c_file,
                   temp_to_original_map, outputs>>

\* Lines 562-620: the reference exists as written: stage it, rewrite the
\* unit and test-probe.
ExactPath ==
    /\ pc = "pp_exact"
    /\ LET missing_file == missing_info.missing_file
           possible_paths == exact_paths(c_file, missing_file)
       IN
       IF possible_paths = <<>>
       THEN /\ pc' = "pp_search"
            /\ UNCHANGED <<temp, temp_to_original_map, calls,
                           attempted_missing_files, is_processable, error_log>>
       ELSE \E copy_ok \in BOOLEAN :
            IF ~copy_ok
            THEN /\ RaiseOutOfBatch
                 /\ calls' = Append(calls, Call("copy2", missing_file[2], "failed"))
                 /\ UNCHANGED <<temp_to_original_map, attempted_missing_files,
                                is_processable, error_log>>
            ELSE LET st == stage_match(temp, temp_to_original_map, c_file[2],
                                       possible_paths[1])
                     test == run_preprocessor(st.temp, c_file[2])
                     new == extract_missing_file(test.err_msg)
                 IN
                 /\ temp' = st.temp
                 /\ temp_to_original_map' = st.map
                 /\ calls' = calls \o
                       <<Call("copy2", missing_file[2], "ok"),
                         Call("run_preprocessor", c_file[2],
                              IF test.success THEN "ok" ELSE "error")>>
                 /\ UNCHANGED attempted_missing_files
                 /\ IF test.success \/ (new.found /\ new.missing_file # missing_file)
                    THEN /\ error_log' = <<>>
                         /\ pc' = "pp_probe"
                         /\ UNCHANGED is_processable
                    ELSE IF new.found /\ new.is_system
                    THEN /\ is_processable' = FALSE
                         /\ error_log' = <<"System include not found">>
                         /\ pc' = "pp_skip"
                    ELSE /\ pc' = IF new.found THEN "pp_probe" ELSE "pp_search"
                         /\ UNCHANGED <<is_processable, error_log>>
    /\ UNCHANGED <<working, idx, successful, failed, c_file, err_msg,
                   missing_info, loop_iterations, outputs>>

\* Lines 622-813: the project-wide search: no file of that name ends the
\* unit; else the matches are tried, and when none resolved the missing
\* file the largest is staged as a best effort, with a warning as the log.
SearchProject ==
    /\ pc = "pp_search"
    /\ LET missing_file == missing_info.missing_file
           matches == find_files_by_name(all_files, missing_file[2])
       IN
       IF matches = <<>>
       THEN /\ is_processable' = FALSE
            /\ error_log' = <<"Missing file not found in project">>
            /\ pc' = "pp_skip"
            /\ UNCHANGED <<temp, temp_to_original_map, calls>>
       ELSE \E copy_ok \in BOOLEAN :
            IF ~copy_ok
            THEN /\ RaiseOutOfBatch
                 /\ calls' = Append(calls, Call("copy2", missing_file[2], "failed"))
                 /\ UNCHANGED <<temp_to_original_map, is_processable, error_log>>
            ELSE LET t == try_matches(matches, temp, temp_to_original_map,
                                      c_file[2], missing_file, <<>>)
                     best == stage_match(t.temp, t.map, c_file[2], matches[1])
                 IN
                 /\ temp' = IF t.missing_file_resolved THEN t.temp ELSE best.temp
                 /\ temp_to_original_map' =
                        IF t.missing_file_resolved THEN t.map ELSE best.map
                 /\ calls' = calls \o t.log
                 /\ is_processable' = t.is_processable
                 /\ error_log' = IF t.missing_file_resolved THEN <<>>
                                 ELSE <<"Warning: using the largest file as a best effort">>
                 /\ pc' = IF t.is_processable THEN "pp_probe" ELSE "pp_skip"
    /\ UNCHANGED <<working, idx, successful, failed, c_file, err_msg,
                   missing_info, attempted_missing_files, loop_iterations,
                   outputs>>

\* The for loop goes to the next unit; after the last the temporary
\* directory is removed (line 861).
NextFile ==
    /\ idx' = idx + 1
    /\ IF idx < Len(files_to_process)
       THEN pc' = "pp_start" /\ UNCHANGED temp
       ELSE pc' = "pp_end" /\ temp' = EmptyFn

\* Lines 822-838: the full run, the copy of its output to the output
\* directory and the restoration of the paths.
FullPreprocessing ==
    /\ pc = "pp_final"
    /\ LET e == Cpp(temp, c_file[2])
           preprocessed_file == [k \in 1..Len(e.trace) |-> <<WS, e.trace[k]>>]
       IN  \E copy_ok \in BOOLEAN :
             /\ calls' = Append(calls, Call("run_preprocessor", c_file[2], "ok"))
             /\ IF copy_ok
                THEN /\ i_files' = (c_file :> postprocess(preprocessed_file,
                                                          temp_to_original_map))
                                   @@ i_files
                     /\ successful' = successful + 1
                     /\ NextFile
                ELSE /\ RaiseOutOfBatch
                     /\ UNCHANGED <<i_files, successful, idx>>
    /\ UNCHANGED <<working, failed, c_file, temp_to_original_map, err_msg,
                   missing_info, err_files, project_loop>>

\* Lines 839-856: the unit is skipped and its log written to the sidecar.
SkipFile ==
    /\ pc = "pp_skip"
    /\ failed' = failed + 1
    /\ err_files' = IF error_log = <<>> THEN err_files
                    ELSE (c_file :> [msg |-> err_msg, note |-> error_log]) @@ err_files
    /\ NextFile
    /\ UNCHANGED <<working, successful, c_file, temp_to_original_map, err_msg,
                   missing_info, calls, i_files, project_loop>>

NextProject ==
    \/ StartFile
    \/ DependencyCheck
    \/ ExactPath
    \/ SearchProject
    \/ FullPreprocessing
    \/ SkipFile

ProjectSpec == InitProject /\ [][NextProject]_vars


\* ----------------------------------------------------------------- claims
NumCalls(op) == Cardinality({k \in 1..Len(calls) : calls[k].op = op})

Probes == {k \in 1..Len(calls) : calls[k].op = "run_cpp_m"}

\* The basename a probe reported missing ("" when it reported none).
Reported(k) ==
    IF calls[k].op = "run_cpp_m" /\ calls[k].res \notin {"ok", "error"}
    THEN calls[k].res ELSE ""

UnitOver == pc \in {"done", "start", "end"} /\ c_file # NoPath

LoopPcs == {"probe", "classify", "select", "stage", "rewrite"}

\* A measure of the work the loop has left: the iterations the budget still
\* allows, then the steps left in the iteration in progress.
LoopRank ==
    5 * (max_iterations - dependency_count)
      + (CASE pc = "classify" -> 4
           [] pc = "select"   -> 3
           [] pc = "stage"    -> 2
           [] pc = "rewrite"  -> 1
           [] OTHER           -> 0)

\* C1: for every unit the loop of preprocess_file makes at most
\* max_iterations probes (run_cpp_m calls) and reaches a terminal outcome:
\* inside preprocess_file a step is always possible, and every step of the
\* loop either leaves the loop or lowers a measure that is never negative.
C1_LoopTerminatesWithinBudget ==
    /\ [](NumCalls("run_cpp_m") <= max_iterations)
    /\ [](LoopRank >= 0)
    /\ [](pc \in LoopPcs \cup {"post", "done"} => ENABLED Next)
    /\ [][(pc \in LoopPcs) =>
            (pc' \in {"post", "done"} \/ (pc' \in LoopPcs /\ LoopRank' < LoopRank))]_vars

\* A unit that used the whole budget without a successful probe.
C1_Witness ==
    /\ pc = "done"
    /\ outcome = "budget-exceeded"
    /\ NumCalls("run_cpp_m") = max_iterations
    /\ \A k \in Probes : calls[k].res # "ok"

\* C2: a unit one of whose probes succeeded has its final expansion
\* attempted, at whichever iteration the success came.
C2_ProbeSuccessIsResolved ==
    (UnitOver /\ \E k \in Probes : calls[k].res = "ok")
        => /\ NumCalls("run_cpp_e") = 1
           /\ outcome \in {"success", "expand-failed"}


\* C3: within one unit no basename is selected twice and none is staged
\* twice.
C3_BasenameAttemptedOnce ==
    \A j, k \in 1..Len(calls) :
        ( /\ calls[j].op \in {"find_file_from_map", "copy2"}
          /\ calls[j].op = calls[k].op
          /\ calls[j].arg = calls[k].arg ) => j = k

\* C4: when two probes of a unit report the same missing basename, nothing
\* is called after the second report and the unit ends as a cycle.
C4_SecondReportIsTerminal ==
    \A j, k \in Probes :
        (j < k /\ Reported(j) # "" /\ Reported(j) = Reported(k))
            => /\ Len(calls) = k
               /\ pc \in {"classify", "done", "start", "end"}
               /\ pc # "classify" => outcome = "cycle"

\* The number of headers of the chain hanging below the file at `path`: the
\* file includes nothing (0), or has one line, a quoted include of a header
\* the selector finds, below which hangs a chain; -1 when it is no chain.
RECURSIVE ChainLen(_, _)
ChainLen(path, fuel) ==
    IF fuel = 0 THEN -1
    ELSE LET ls == proj[path].lines IN
         IF ls = <<>> THEN 0
         ELSE IF Len(ls) # 1 \/ ls[1].k # "inc" \/ ls[1].d # "q" THEN -1
         ELSE LET next == find_file_from_map(<<ls[1].p, ls[1].n>>, <<WS, path[2]>>,
                                             file_map, DOMAIN proj)
              IN  IF next = NoPath THEN -1
                  ELSE LET rest == ChainLen(next, fuel - 1)
                       IN  IF rest < 0 THEN -1 ELSE rest + 1

UnitChain == ChainLen(c_file, Cardinality(DOMAIN proj))

\* C5: a unit whose headers form a chain of N project headers is done after
\* at most N + 1 probes.
C5_ChainWithinNPlusOneProbes ==
    (UnitOver /\ UnitChain >= 0) => NumCalls("run_cpp_m") <= UnitChain + 1

\* C6: when the missing header of a probe is classified as a system header,
\* the unit fails as 'system-header' in the same step: nothing is selected,
\* copied or rewritten and PathMap is unchanged.
C6_SystemHeaderIsTerminal ==
    [][(pc = "classify" /\ extract_missing_info(err_msg).found
                        /\ extract_missing_info(err_msg).is_system)
        => ( /\ pc' = "done" /\ ret' = FALSE /\ outcome' = "system-header"
             /\ calls' = calls /\ calls[Len(calls)].op = "run_cpp_m"
             /\ temp' = temp
             /\ temp_to_original_map' = temp_to_original_map
             /\ found_source_file' = found_source_file )]_vars

C6_Witness ==
    /\ pc = "done" /\ outcome = "system-header"
    /\ err_msg.kind = "missing" /\ err_msg.line.d = "a"
    /\ calls[Len(calls)].op = "run_cpp_m"

\* C7: when find_file_from_map returns nothing for the missing project
\* header, the unit fails as 'not-found' in the same iteration, the workspace
\* files and PathMap being those the probe ran on.
C7_NotFoundIsTerminal ==
    [][(pc = "select" /\ find_file_from_map(missing_info.missing_file,
                             includer_in_temp_path, file_map, DOMAIN proj) = NoPath)
        => ( /\ pc' = "done" /\ ret' = FALSE /\ outcome' = "not-found"
             /\ calls[Len(calls)].op = "run_cpp_m"
             /\ NumCalls("run_cpp_m")' = NumCalls("run_cpp_m")
             /\ NumCalls("copy2")' = NumCalls("copy2")
             /\ NumCalls("update_includes")' = NumCalls("update_includes")
             /\ temp' = temp
             /\ temp_to_original_map' = temp_to_original_map )]_vars

C7_Witness ==
    /\ pc = "done" /\ outcome = "not-found"
    /\ calls[Len(calls)].op = "find_file_from_map"
    /\ calls[Len(calls)].arg = "n.h"
    /\ calls[Len(calls)].res = "none"

\* C8: when the diagnostic of a failed probe names no missing header, the
\* unit fails as 'tool-error' in the same step, with no selection, staging,
\* rewrite or further probe.
C8_ToolErrorIsTerminal ==
    [][(pc = "classify" /\ ~extract_missing_info(err_msg).found)
        => ( /\ pc' = "done" /\ ret' = FALSE /\ outcome' = "tool-error"
             /\ calls' = calls /\ calls[Len(calls)] = Call("run_cpp_m", c_file[2], "error")
             /\ temp' = temp
             /\ temp_to_original_map' = temp_to_original_map )]_vars

C8_Witness ==
    /\ pc = "done" /\ outcome = "tool-error"
    /\ err_msg.kind = "other"
    /\ calls[Len(calls)].op = "run_cpp_m"

\* C9: a unit's final expansion (run_cpp_e) is called exactly once when one
\* of its probes succeeded and never otherwise, and nothing but that call
\* follows the successful probe.
C9_ExpandOnceIffResolved ==
    UnitOver =>
        /\ NumCalls("run_cpp_e") = (IF \E k \in Probes : calls[k].res = "ok" THEN 1 ELSE 0)
        /\ \A k \in Probes : calls[k].res = "ok" =>
              \A j \in (k + 1)..Len(calls) : calls[j].op = "run_cpp_e"

\* The original location of the staged file the selector was called with.
RequesterOriginal ==
    IF includer_in_temp_path \in DOMAIN temp_to_original_map
    THEN temp_to_original_map[includer_in_temp_path] ELSE NoPath

\* C10: when the index holds several candidates for the missing basename
\* and one lies in the directory of the requesting file's original, the
\* selection made for the loop is that candidate.  (Stated for a reference
\* that is a bare basename, to which no relative resolution applies.)
C10_SameDirectoryCandidateChosen ==
    (/\ pc = "stage"
     /\ missing_info.missing_file[1] = ""
     /\ RequesterOriginal # NoPath
     /\ Len(file_map[missing_file_base_name]) > 1
     /\ InSeq(<<RequesterOriginal[1], missing_file_base_name>>,
              file_map[missing_file_base_name]))
        => found_source_file = <<RequesterOriginal[1], missing_file_base_name>>

\* The candidates the index holds for the basename being resolved.
Candidates == file_map[missing_file_base_name]

\* C11: when the index holds several candidates for a missing bare basename
\* and none lies in the directory of the requesting file's original, the
\* candidate selected is one of greatest file size.
C11_GreatestSizeCandidateChosen ==
    (/\ pc = "stage"
     /\ missing_info.missing_file[1] = ""
     /\ RequesterOriginal # NoPath
     /\ Len(Candidates) > 1
     /\ ~InSeq(<<RequesterOriginal[1], missing_file_base_name>>, Candidates))
        => \A k \in 1..Len(Candidates) :
              SizeOf(proj[Candidates[k]].lines)
                  <= SizeOf(proj[found_source_file].lines)

\* The file a reference with a directory part names, read from the
\* directory of the requesting file's original.
RelativeTarget ==
    <<Join(RequesterOriginal[1], missing_info.missing_file[1]),
      missing_file_base_name>>

\* C12: when the missing reference has a directory part and the path it
\* names from the directory of the requesting file's original exists, that
\* path is the one selected, whatever the index holds.
C12_RelativeReferenceResolvedFromOriginal ==
    (/\ pc = "stage"
     /\ missing_info.missing_file[1] # ""
     /\ RequesterOriginal # NoPath
     /\ RelativeTarget \in DOMAIN proj)
        => found_source_file = RelativeTarget

\* C13: no location marker of a written artifact names a path of the
\* temporary directory.
C13_ArtifactNamesOriginalsOnly ==
    \A u \in DOMAIN i_files :
        \A k \in 1..Len(i_files[u]) : i_files[u][k][1] # WS

\* C14: at the first probe of a unit the temporary directory holds the
\* unit's staged copy and nothing else, and between two units (and after the
\* last) it is empty.
C14_WorkspaceFreshForEveryUnit ==
    /\ (pc = "probe" /\ dependency_count = 0) => DOMAIN temp = {c_file[2]}
    /\ (pc = "start" /\ idx > 1) => temp = EmptyFn

\* preprocess_file as a function of the unit: its loop and final expansion
\* run from the temporary directory w and PathMap map after n iterations,
\* every copy, tool run and write doing what it is asked.  The result is the
\* return value, the PathMap at the end and the text written to the .i file.
RECURSIVE preprocess_file(_, _, _, _)
preprocess_file(unit, w, map, n) ==
    LET failure == [ret |-> FALSE, map |-> map, out |-> <<>>] IN
    IF ~(n < max_iterations) THEN failure
    ELSE LET r == run_cpp_m(w, unit[2]) IN
      IF r.success
      THEN IF n + 1 >= max_iterations THEN failure
           ELSE LET e == Cpp(w, unit[2])
                    final_out == [k \in 1..Len(e.trace) |-> <<WS, e.trace[k]>>]
                IN  [ret |-> TRUE, map |-> map,
                     out |-> restore_markers(final_out, map)]
      ELSE LET info == extract_missing_info(r.err_msg) IN
        IF ~info.found \/ info.is_system THEN failure
        ELSE LET base == info.missing_file[2]
                 includer == info.includer[2]
                 found == find_file_from_map(info.missing_file, <<WS, includer>>,
                                             file_map, DOMAIN proj)
             IN
          IF found = NoPath THEN failure
          ELSE LET needed == ~ ( /\ base \in DOMAIN w
                                 /\ w[base].mtime >= proj[found].mtime
                                 /\ SizeOf(w[base].lines) = SizeOf(proj[found].lines) )
                   w1 == IF needed
                         THEN [f \in DOMAIN w \cup {base} |->
                                 IF f = base THEN proj[found] ELSE w[f]]
                         ELSE w
                   map1 == IF needed
                           THEN [k \in DOMAIN map \cup {<<WS, base>>} |->
                                   IF k = <<WS, base>> THEN found ELSE map[k]]
                           ELSE map
                   u == update_includes(w1[includer].lines, base)
                   w2 == IF u.updated
                         THEN [w1 EXCEPT ![includer] = [lines |-> u.lines, mtime |-> 1]]
                         ELSE w1
               IN  preprocess_file(unit, w2, map1, n + 1)

\* The unit in flight processed first, in an empty temporary directory.
ProcessedAlone ==
    preprocess_file(c_file, (c_file[2] :> proj[c_file]), (<<WS, c_file[2]>> :> c_file), 0)

\* Outcomes caused by a failing copy or a failing final tool run, not by
\* the unit and the project.
EnvFailures == {"copy-failed", "dep-copy-failed", "expand-failed"}

\* C15: a unit's return value, the originals recorded for its headers and
\* its artifact are those of the same unit processed first, wherever in the
\* batch the unit is processed.
C15_OutcomeIndependentOfOrder ==
    (pc = "done" /\ outcome \notin EnvFailures) =>
        /\ ret = ProcessedAlone.ret
        /\ temp_to_original_map = ProcessedAlone.map
        /\ (ret /\ c_file \in DOMAIN i_files) => i_files[c_file] = ProcessedAlone.out

\* The same comparison for the first unit of a batch.
FirstUnitIsProcessedAlone ==
    (pc = "done" /\ idx = 1 /\ outcome \notin EnvFailures) =>
        /\ ret = ProcessedAlone.ret
        /\ temp_to_original_map = ProcessedAlone.map
        /\ (ret /\ c_file \in DOMAIN i_files) => i_files[c_file] = ProcessedAlone.out

\* C16: when the loop goes on after staging, PathMap maps the workspace
\* path of the missing basename to the original selected for it, and the
\* workspace file has that original's text.
C16_StagedDependencyRecorded ==
    pc = "rewrite" =>
        /\ <<WS, missing_file_base_name>> \in DOMAIN temp_to_original_map
        /\ temp_to_original_map[<<WS, missing_file_base_name>>] = found_source_file
        /\ temp[missing_file_base_name].lines = proj[found_source_file].lines

\* The staged includer update_includes is about to be called on.
IncluderLocated ==
    /\ pc = "rewrite"
    /\ missing_info.includer # NoPath
    /\ missing_info.includer[2] \in DOMAIN temp

IncluderLines == temp[missing_info.includer[2]].lines

\* The first line that is an #include (either delimiter) of basename n, 0
\* when there is none.
FirstDirective(lines, n) ==
    LET S == {k \in 1..Len(lines) :
                 lines[k].k = "inc" /\ ~lines[k].sp /\ lines[k].n = n}
    IN  IF S = {} THEN 0 ELSE CHOOSE k \in S : \A j \in S : k <= j

\* C17: update_includes turns the first #include of the target basename
\* into the quoted flat form and returns every other line as it was.
C17_OnlyFirstDirectiveRewritten ==
    IncluderLocated =>
        LET r == update_includes(IncluderLines, missing_file_base_name)
            k == FirstDirective(IncluderLines, missing_file_base_name)
        IN  /\ Len(r.lines) = Len(IncluderLines)
            /\ \A j \in 1..Len(IncluderLines) :
                  r.lines[j] = IF j = k THEN Q("", missing_file_base_name)
                               ELSE IncluderLines[j]

\* C18: a second update_includes with the same target changes nothing and
\* reports no modification.
C18_RewriteIdempotent ==
    IncluderLocated =>
        LET r1 == update_includes(IncluderLines, missing_file_base_name)
            r2 == update_includes(r1.lines, missing_file_base_name)
        IN  r2.lines = r1.lines /\ ~r2.updated

\* C19: an update_includes that reports no modification is the last call
\* made for its unit, which ends as failed.
C19_NoModificationIsTerminal ==
    \A k \in 1..Len(calls) :
        (calls[k].op = "update_includes" /\ calls[k].res = "unchanged")
            => /\ k = Len(calls)
               /\ pc \in {"done", "start", "end"}
               /\ ret = FALSE

\* C20: a failure met while processing a unit never ends the batch:
\* preprocess_project is not left by an exception, and when its loop is over
\* every unit has been counted as processed or skipped.
C20_FailureIsUnitLocal ==
    /\ pc # "pp_aborted"
    /\ pc = "pp_end" => successful + failed = Len(files_to_process)

\* C21: when the find command of the scan fails, preprocess_file is called
\* for no unit, also when a single file was requested: no unit is ever in
\* flight.
C21_FailedScanProcessesNoUnit ==
    find_failed => c_file = NoPath

\* C22: an invocation of the external preprocessor that never returns does
\* not stop the batch: the program still has a step to take (the kill after
\* the timeout, which fails the unit and lets the batch go on).
C22_BlockedInvocationIsKilled ==
    pc = "blocked" => ENABLED NextMain

\* C23: every unit that preprocess_file finishes as failed has a sidecar
\* written for it, whatever the failure path.
C23_FailedUnitHasSidecar ==
    (pc = "done" /\ ~ret) => c_file \in DOMAIN err_files

C25_FileIndexNeverChanges ==
    file_map = BuildMap(all_files, EmptyFn)

\* The end of a batch of two units whose last unit failed on a header the
\* index does not know.
C25_Witness ==
    /\ pc = "end"
    /\ Len(files_to_process) = 2
    /\ outcome = "not-found"
    /\ \E k \in 1..Len(calls) :
          calls[k].op = "find_file_from_map" /\ calls[k].res = "none"

\* C26: while one unit is processed PathMap only grows: no step removes a
\* key, every key is a workspace path, and the only step that uses it to
\* produce output is the path restoration after the loop has ended.
C26_PathMapOnlyGrows ==
    [][(pc # "start") =>
          /\ \A k \in DOMAIN temp_to_original_map :
                k \in DOMAIN temp_to_original_map'
          /\ \A k \in DOMAIN temp_to_original_map' : k[1] = WS
          /\ (i_files' # i_files) =>
                /\ pc = "post" /\ pc' = "done"
                /\ i_files'[c_file] =
                     restore_markers(
                        [j \in 1..Len(i_files'[c_file]) |->
                            <<WS, i_files'[c_file][j][2]>>],
                        temp_to_original_map)]_vars

\* A unit that succeeded after one header was staged: PathMap grew to two
\* keys and the artifact names the header's original.
C26_Witness ==
    /\ pc = "done"
    /\ outcome = "success"
    /\ Cardinality(DOMAIN temp_to_original_map) = 2
    /\ c_file \in DOMAIN i_files
    /\ \E j \in 1..Len(i_files[c_file]) :
          i_files[c_file][j] \notin {c_file} /\ i_files[c_file][j][1] # WS

\* C27: the selector is deterministic: two calls made for the same missing
\* name from the same requesting file, the FileIndex and the project tree
\* being what they were, return the same path (or both nothing).
SelectorCalls == {k \in 1..Len(calls) : calls[k].op = "find_file_from_map"}

C28_EveryUnitCountedOnce ==
    [][/\ (pc = "done") =>
            IF ret THEN successful' = successful + 1 /\ failed' = failed
            ELSE successful' = successful /\ failed' = failed + 1
       /\ (pc # "done") => (successful' = successful /\ failed' = failed)
       /\ successful' + failed' = idx' - 1
       /\ (pc' = "end") => successful' + failed' = Len(files_to_process')]_vars

\* The end of a batch of two units, both counted failed, the last one because
\* its processing raised.
C28_Witness ==
    /\ pc = "end"
    /\ Len(files_to_process) = 2
    /\ successful = 0
    /\ failed = 2
    /\ outcome = "raised"

\* C29: the rewrite of an iteration is applied to the staged copy of the
\* includer named by the diagnostic and to no other file; when the diagnostic
\* names no includer, or its basename is not in the workspace, the unit ends
\* failed and no file is rewritten.
C29_RewriteAppliedToNamedIncluder ==
    [][(pc = "rewrite") =>
          IF missing_info.includer # NoPath
             /\ missing_info.includer[2] \in DOMAIN temp
          THEN /\ DOMAIN temp' = DOMAIN temp
               /\ \A n \in DOMAIN temp \ {missing_info.includer[2]} :
                     temp'[n] = temp[n]
               /\ temp'[missing_info.includer[2]].lines =
                     update_includes(temp[missing_info.includer[2]].lines,
                                     missing_file_base_name).lines
               /\ pc' = "probe"
          ELSE /\ temp' = temp
               /\ pc' = "done"
               /\ ret' = FALSE
               /\ outcome' = "no-includer"]_vars

\* A batch in which the first unit failed because the includer (a system
\* header) is not in the workspace, and the include of a staged header was
\* rewritten for the second.
C29_Witness ==
    /\ U \in DOMAIN err_files
    /\ err_files[U].note = "Could not locate the includer"
    /\ c_file = V
    /\ \E k \in 1..Len(calls) :
          calls[k] = Call("update_includes", "x.h", "updated")

\* C30: extract_missing_info reports a system header exactly when the
\* directive that references the missing name appears in the diagnostic with
\* angle brackets; a line of the diagnostic that references another file does
\* not decide.
C30_SystemIffAngleBrackets ==
    (pc = "extracted" /\ err_msg.kind = "missing") =>
        (missing_info.is_system
            <=> (InSeq(err_msg.line, err_msg.echo) /\ err_msg.line.d = "a"))

\* C31: replace_temp_paths_in_output keeps the number and the order of the
\* lines; a marker line whose path is a key of PathMap gets the mapped path
\* and every other line is emitted unchanged.
C31_OnlyMappedMarkersChange ==
    (pc = "restored") =>
        /\ Len(restored_text) = Len(expanded_text)
        /\ \A k \in 1..Len(expanded_text) :
              restored_text[k] =
                 IF expanded_text[k].k = "marker"
                    /\ expanded_text[k].path \in DOMAIN temp_to_original_map
                 THEN [expanded_text[k] EXCEPT
                          !.path = temp_to_original_map[expanded_text[k].path]]
                 ELSE expanded_text[k]

\* C32: the workspace is emptied after every unit when clean_temp is set and
\* otherwise after every CleanupPeriod-th processed unit; no other step
\* removes a staged file, so between two purges the staged files stay.
C32_WorkspacePurgedPeriodically ==
    [][/\ (pc = "done") =>
            temp' = IF clean_temp \/ (successful' + failed') % CleanupPeriod = 0
                    THEN EmptyFn ELSE temp
       /\ (pc # "done") => DOMAIN temp \subseteq DOMAIN temp']_vars

\* The end of a batch of two units run without clean_temp: the unit staged
\* last was purged by the periodic cleanup.
C32_Witness ==
    /\ pc = "end"
    /\ ~clean_temp
    /\ successful + failed = CleanupPeriod
    /\ outcome # "copy-failed"
    /\ temp = EmptyFn

\* C33: the FileIndex holds every scanned path exactly once, under its
\* basename, and nothing else; the list of units is the scanned paths with
\* suffix .c, each once, in scan order.
ScanPosition(f) == CHOOSE k \in 1..Len(all_files) : all_files[k] = f

C33_IndexIsTheScanByBasename ==
    (pc # "main" /\ ~find_failed) =>
    /\ \A f \in Range(all_files) :
          /\ f[2] \in DOMAIN file_map
          /\ Cardinality({k \in 1..Len(file_map[f[2]]) : file_map[f[2]][k] = f}) = 1
    /\ \A b \in DOMAIN file_map : \A k \in 1..Len(file_map[b]) :
          file_map[b][k][2] = b /\ file_map[b][k] \in Range(all_files)
    /\ (single_file = NoPath) =>
          /\ Range(files_to_process) = {f \in Range(all_files) : f[2] \in CNames}
          /\ \A j \in 1..Len(files_to_process) :
                \A k \in 1..Len(files_to_process) :
                   j < k => ScanPosition(files_to_process[j])
                               < ScanPosition(files_to_process[k])

\* The scan has run and found two units and two headers of one basename.
C33_Witness ==
    /\ pc = "start"
    /\ ~find_failed
    /\ single_file = NoPath
    /\ Len(files_to_process) = 2
    /\ "x.h" \in DOMAIN file_map
    /\ Len(file_map["x.h"]) = 2

\* C34: while a unit is processed, the workspace file of its basename holds
\* the unit's own text (rewritten includes aside) and PathMap maps it to the
\* unit's original path, also when a missing header has the unit's basename.
Flat(lines) == [k \in 1..Len(lines) |-> [lines[k] EXCEPT !.p = ""]]

C34_StagedUnitNeverReplaced ==
    (pc \in {"probe", "classify", "select", "stage", "rewrite", "post"}) =>
        /\ c_file[2] \in DOMAIN temp
        /\ Flat(temp[c_file[2]].lines) = Flat(proj[c_file].lines)
        /\ temp_file \in DOMAIN temp_to_original_map
        /\ temp_to_original_map[temp_file] = c_file

\* C35: when preprocess_file has finished a unit, exactly one of its
\* artifact and its sidecar exists: a success leaves no sidecar and a failure
\* leaves no artifact, whatever an earlier run left in place.
C35_ExactlyOneOfArtifactAndSidecar ==
    (pc = "done") =>
        /\ (c_file \in DOMAIN i_files) # (c_file \in DOMAIN err_files)
        /\ ret => c_file \notin DOMAIN err_files
        /\ ~ret => c_file \notin DOMAIN i_files

\* C36: in the per-file loop of preprocess_project every iteration that
\* does not end the loop adds one basename that attempted_missing_files did
\* not hold, and the loop begins at most K+1 iterations for one file of a
\* project with K distinct basenames.
ProjectBasenames == {all_files[k][2] : k \in 1..Len(all_files)}

C36_NewBasenameEveryIteration ==
    /\ (pc = "pp_probe" /\ pc' = "pp_exact") =>
          /\ attempted_missing_files \subseteq attempted_missing_files'
          /\ Cardinality(attempted_missing_files')
                = Cardinality(attempted_missing_files) + 1
    /\ (pc \in {"pp_exact", "pp_search"} /\ pc' = "pp_probe") =>
          attempted_missing_files' = attempted_missing_files

C36_LoopWithinProjectBasenames ==
    [][/\ C36_NewBasenameEveryIteration
       /\ loop_iterations' <= Cardinality(ProjectBasenames) + 1]_vars

C36_FirstHalf == [][C36_NewBasenameEveryIteration]_vars

\* C37: when the test probe run after staging a candidate reports a missing
\* system include, the unit is marked not processable and the reason kept
\* for its sidecar is the "System include not found" record, in the
\* exact-path branch and in the project-wide search branch alike.
TestProbeFoundSystemInclude ==
    /\ pc \in {"pp_exact", "pp_search"}
    /\ Len(calls') > Len(calls)
    /\ calls'[Len(calls')] = Call("run_preprocessor", c_file[2], "error")
    /\ LET test == run_preprocessor(temp', c_file[2])
           new == extract_missing_file(test.err_msg)
       IN  /\ new.found
           /\ new.missing_file = missing_info.missing_file
           /\ new.is_system

C37_SystemIncludeRecordKept ==
    [][TestProbeFoundSystemInclude =>
          /\ ~is_processable'
          /\ pc' = "pp_skip"
          /\ error_log' = <<"System include not found">>]_vars

\* The same for the exact-path branch alone.
C37_ExactPathBranch ==
    [][(TestProbeFoundSystemInclude /\ pc = "pp_exact") =>
          /\ ~is_processable'
          /\ pc' = "pp_skip"
          /\ error_log' = <<"System include not found">>]_vars

\* C38: once main has created temp_dir, the directory is removed before
\* main returns or lets an exception propagate, whatever the outcome of
\* process_files.
C38_TempDirRemovedBeforeMainEnds ==
    /\ (pc \in {"returned", "propagated"}) =>
          ~temp_dir_exists /\ temp = EmptyFn
    /\ (pc \in {"start", "probe", "classify", "select", "stage", "rewrite",
                 "post", "done", "end", "raising", "blocked"}) => temp_dir_exists

\* process_files raised with files staged in temp_dir and main has let the
\* exception propagate.
C38_Witness ==
    /\ pc = "propagated"
    /\ ~temp_dir_exists
    /\ Len(calls) >= 3
    /\ calls[Len(calls)].res = "interrupted"
    /\ DOMAIN temp_to_original_map # {<<WS, c_file[2]>>}

====
